---- MODULE Spec2Model ----
(***************************************************************************)
(* Model of package checkxml (clbanning/checkxml): reconciliation of a     *)
(* decoded XML document (an mxj.Map tree) against a Go struct definition.  *)
(*                                                                         *)
(*   UnknownXMLTags*  -> checkAllTags  (src/unknowntags.go)                *)
(*   MissingXMLTags*  -> checkMembers  (src/missingtags.go)                *)
(*   SetTagsToIgnore, SetMembersToIgnore, IgnoreOmitemptyTag, SetMxjCast   *)
(*                       (misc.go, held in src/unknowntags_test.go)        *)
(*                                                                         *)
(* A Go string is a sequence of tokens taken from a prefix-free alphabet   *)
(* (".", "-", ">", ",", and names such as "A", "B", "attr"), so that       *)
(* string equality, concatenation and strings.Split are the ones of Go.    *)
(***************************************************************************)
EXTENDS Integers, Sequences, FiniteSets, TLC

VARIABLES
    doc,          \* the outcome of the mxj decoder for the XML data of the call
    val,          \* the struct value handed to the entry points
    skiptags,     \* var skiptags []string
    skipmembers,  \* var skipmembers []skipmems
    omitemptyOK,  \* var omitemptyOK = true
    mxjCast,      \* var mxjCast bool
    ret,          \* what the last entry point called under the present
                  \* configuration returned (NoCall if there was none)
    hist,         \* history of the two ignore lists (kept by SpecConfig only)
    has,          \* the arguments and the outcome of a call of HasTags
    run           \* the call that is taken one step at a time (SpecSteps only)

vars == <<doc, val, skiptags, skipmembers, omitemptyOK, mxjCast, ret, hist, has, run>>

----------------------------------------------------------------------------
(* Bounds of the model *)

\* longest repeated element (list) of a document
MaxSeqLen == 2
\* longest argument list handed to SetTagsToIgnore / SetMembersToIgnore
MaxIgnore == 1
\* the longest result slice and the most check values handed to HasTags
MaxTags == 2

----------------------------------------------------------------------------
(* Strings *)

EmptyStr == <<>>
Str(tok) == <<tok>>
Dot == <<".">>
Hyphen == <<"-">>

\* index of the first occurrence of token sep in s, 0 if there is none
RECURSIVE IndexFrom(_, _, _)
IndexFrom(s, sep, i) ==
    IF i > Len(s) THEN 0
    ELSE IF s[i] = sep THEN i
    ELSE IndexFrom(s, sep, i + 1)

\* strings.Split(s, sep): always at least one piece; Split("", sep) = [""]
RECURSIVE Split(_, _)
Split(s, sep) ==
    LET i == IndexFrom(s, sep, 1)
    IN  IF i = 0 THEN <<s>>
        ELSE <<SubSeq(s, 1, i - 1)>> \o Split(SubSeq(s, i + 1, Len(s)), sep)

\* membership in a Go slice
InSeq(x, s) == \E i \in 1..Len(s) : s[i] = x
SeqToSet(s) == {s[i] : i \in 1..Len(s)}

----------------------------------------------------------------------------
(* The document tree: interface{} values held by an mxj.Map *)

Scalar == [kind |-> "scalar"]
\* the nil interface{}: the value of a map lookup that found no key
NilNode == [kind |-> "nil"]
MapNode(f) == [kind |-> "map", m |-> f]
ListNode(l) == [kind |-> "list", l |-> l]
\* a map[string]interface{} that is nil: ranges over nothing
NilMap == MapNode(<<>>)

IsMap(mv) == mv.kind = "map"
IsList(mv) == mv.kind = "list"

----------------------------------------------------------------------------
(* reflect.Value / reflect.Type of the struct definition *)

\* string, bool, ...: every kind that is neither struct, slice nor pointer
BasicT == [kind |-> "basic"]
\* encoding/xml.Name
XMLNameT == [kind |-> "struct", name |-> Str("Name"), pkg |-> "encoding/xml", fields |-> <<>>]
StructT(name, fields) == [kind |-> "struct", name |-> name, pkg |-> "main", fields |-> fields]
SliceT(elem) == [kind |-> "slice", elem |-> elem]
\* a pointer value: nil or pointing at elem
PtrT(elem, isnil) == [kind |-> "ptr", elem |-> elem, isnil |-> isnil]
\* the zero reflect.Value, as returned by reflect.Indirect of a nil pointer
Invalid == [kind |-> "invalid"]

\* a struct field: reflect.StructField with the field's value
\*   name: Go field name, exported: PkgPath == "", tag: value of the `xml` key
Field(name, exported, tag, v) == [name |-> name, exported |-> exported, tag |-> tag, val |-> v]

\* a faulty Indirect: a nil pointer is followed to the zero value of its type
IndirectThroughNil(v) == IF v.kind = "ptr" THEN v.elem ELSE v

\* reflect.Indirect
Indirect(v) == IF v.kind = "ptr" THEN (IF v.isnil THEN Invalid ELSE v.elem) ELSE v

\* the zero value of a type: every pointer in it is nil
RECURSIVE Zero(_)
Zero(v) ==
    CASE v.kind = "ptr" -> PtrT(v.elem, TRUE)
      [] v.kind = "struct" ->
            [v EXCEPT !.fields = [i \in 1..Len(v.fields) |->
                                    [v.fields[i] EXCEPT !.val = Zero(v.fields[i].val)]]]
      [] OTHER -> v

\* reflect.New(t): a non-nil pointer to the zero value of t
New(t) == PtrT(Zero(t), FALSE)

\* reflect.Type.Name(): the empty string for unnamed (slice, pointer) types
TypeName(v) ==
    CASE v.kind = "struct" -> v.name
      [] v.kind = "basic" -> Str("string")
      [] OTHER -> EmptyStr

----------------------------------------------------------------------------
(* Parsing of the `xml` struct tag, as both traversals do it *)

Comma == ","
Gt == ">"

\* tags := strings.Split(tagvals, ",")
TagOptions(tagvals) == Split(tagvals, Comma)
\* tag := strings.Split(tags[0], ">")
TagPath(tagvals) == Split(TagOptions(tagvals)[1], Gt)
\* for _, v := range tags[1:] { if v == opt ... }
HasOption(tagvals, opt) ==
    LET tags == TagOptions(tagvals)
    IN  \E i \in 2..Len(tags) : tags[i] = Str(opt)

\* typ.Field(i).Type.Name() == "Name" && typ.Field(i).Type.PkgPath() == "encoding/xml"
IsXMLName(fv) == fv.kind = "struct" /\ fv.name = Str("Name") /\ fv.pkg = "encoding/xml"

----------------------------------------------------------------------------
(* The possible results of a traversal.  Go ranges over a map in an        *)
(* unspecified order, so a traversal that ranges over document keys has a  *)
(* set of possible result slices.                                          *)

\* a faulty Cat: the traversal stops after the first key that appended
CatFirstOnly(A, B) == {IF a # <<>> THEN a ELSE a \o b : a \in A, b \in B}

Cat(A, B) == {a \o b : a \in A, b \in B}

RECURSIVE CatAll(_)
CatAll(sets) ==
    IF Len(sets) = 0 THEN {<<>>}
    ELSE Cat(sets[1], CatAll(Tail(sets)))

\* every order in which "for k := range mm" can visit the keys S
Orders(S) ==
    {p \in [1..Cardinality(S) -> S] : \A i, j \in 1..Cardinality(S) : p[i] = p[j] => i = j}

----------------------------------------------------------------------------
(* Unknown direction: checkAllTags *)

\* a faulty FieldKey: the last segment of a tag path is the key
FieldKeyLastSegment(f) ==
    LET path == TagPath(f.tag)
        tag0 == path[Len(path)]
        tagA == IF tag0 = Hyphen THEN EmptyStr ELSE tag0
        base == IF tagA = EmptyStr THEN f.name ELSE tagA
    IN  IF HasOption(f.tag, "attr") THEN Hyphen \o base ELSE base

\* a faulty FieldKey: the tag "-" is a key like any other
FieldKeySentinelKept(f) ==
    LET tag0 == TagPath(f.tag)[1]
        base == IF tag0 = EmptyStr THEN f.name ELSE tag0
    IN  IF HasOption(f.tag, "attr") THEN Hyphen \o base ELSE base

\* the key under which step 4 of checkAllTags files a struct field
FieldKey(f) ==
    LET tag0 == TagPath(f.tag)[1]
        tagA == IF tag0 = Hyphen THEN EmptyStr ELSE tag0
        attr == HasOption(f.tag, "attr")
        base == IF tagA = EmptyStr THEN f.name ELSE tagA
    IN  IF attr THEN Hyphen \o base ELSE base

\* the fields step 4 of checkAllTags does not "continue" over
FieldKnown(f) == f.exported /\ ~IsXMLName(f.val)

\* a faulty KnownFields: the struct itself is filed under every key, where
\* the code files the field's value
KnownFieldsOfParent(v) ==
    LET idx == {i \in 1..Len(v.fields) : FieldKnown(v.fields[i])}
    IN  [k \in {FieldKey(v.fields[i]) : i \in idx} |-> v]

\* fields map[string]*fieldSpec: a later field with the same key replaces
\* an earlier one
KnownFields(v) ==
    LET idx == {i \in 1..Len(v.fields) : FieldKnown(v.fields[i])}
        keys == {FieldKey(v.fields[i]) : i \in idx}
        last(k) == CHOOSE i \in idx : /\ FieldKey(v.fields[i]) = k
                                      /\ \A j \in idx : FieldKey(v.fields[j]) = k => j <= i
    IN  [k \in keys |-> v.fields[last(k)].val]

\* tkey: the dot-notation path of key k below path key
\* a faulty TKey: the key without the path that leads to it
TKeyNameOnly(key, k) == k

TKey(key, k) == IF key = EmptyStr THEN k ELSE key \o Dot \o k

\* a faulty SkipTag: only the keys of the root are compared
SkipTagRootOnly(key, k, skip) ==
    \E i \in 1..Len(skip) : key = EmptyStr /\ k = skip[i]

\* for _, sk := range skiptags { ... goto next }
SkipTag(key, k, skip) ==
    \E i \in 1..Len(skip) :
        \/ key = EmptyStr /\ k = skip[i]
        \/ key # EmptyStr /\ key \o Dot \o k = skip[i]

\* step 2 of checkAllTags: a slice is declared and mv is no []interface{}
NotListEntry(key) == <<key>>

\* step 3b of checkAllTags: a struct is declared and mv holds no k:v pairs;
\* there is no return, the range over the nil map visits nothing
NotMapKey(key) == <<key>>

\* step 5 of checkAllTags: no exported field is filed under key k
UnknownEntry(key, k) == <<TKey(key, k)>>

\* the traversal of checkAllTags with the ignore list skip: the set of
\* slices it can append to s
RECURSIVE allTags(_, _, _, _)
allTags(mv, value, key, skip) ==
    LET v == Indirect(value)
    IN  IF v.kind = "invalid" THEN {<<>>}
        ELSE IF v.kind = "slice" THEN
            LET tval == IF v.elem.kind = "ptr" THEN v.elem.elem ELSE v.elem
                sval == New(tval)
            IN  IF ~IsList(mv) THEN {NotListEntry(key)}
                ELSE CatAll([i \in 1..Len(mv.l) |-> allTags(mv.l[i], sval, key, skip)])
        ELSE IF v.kind # "struct" THEN {<<>>}
        ELSE
            LET notmap == IF IsMap(mv) THEN <<>> ELSE NotMapKey(key)
                mm == IF IsMap(mv) THEN mv.m ELSE <<>>
                fields == KnownFields(v)
                forKey(k) ==
                    IF SkipTag(key, k, skip) THEN {<<>>}
                    ELSE IF k \notin DOMAIN fields THEN {UnknownEntry(key, k)}
                    ELSE allTags(mm[k], fields[k], TKey(key, k), skip)
                forOrder(p) == CatAll([i \in 1..Len(p) |-> forKey(p[i])])
            IN  Cat({notmap}, UNION {forOrder(p) : p \in Orders(DOMAIN mm)})

\* checkAllTags(mv, val, &s, key): reads the package variable skiptags
checkAllTags(mv, value, key) == allTags(mv, value, key, skiptags)

\* the deepest of the calls a loop makes; 0 when it makes none
Deepest(S) == CHOOSE x \in S \cup {0} : \A y \in S \cup {0} : y <= x

\* the depth the recursion of checkAllTags reaches: 1 for a call that
\* returns without calling itself, else one more than its deepest call
RECURSIVE allTagsDepth(_, _, _, _)
allTagsDepth(mv, value, key, skip) ==
    LET v == Indirect(value)
    IN  IF v.kind = "invalid" THEN 1
        ELSE IF v.kind = "slice" THEN
            LET tval == IF v.elem.kind = "ptr" THEN v.elem.elem ELSE v.elem
                sval == New(tval)
            IN  IF ~IsList(mv) THEN 1
                ELSE 1 + Deepest({allTagsDepth(mv.l[i], sval, key, skip) : i \in 1..Len(mv.l)})
        ELSE IF v.kind # "struct" THEN 1
        ELSE
            LET mm == IF IsMap(mv) THEN mv.m ELSE <<>>
                fields == KnownFields(v)
                called == {k \in DOMAIN mm : ~SkipTag(key, k, skip) /\ k \in DOMAIN fields}
            IN  1 + Deepest({allTagsDepth(mm[k], fields[k], TKey(key, k), skip) : k \in called})

----------------------------------------------------------------------------
(* Missing direction: checkMembers *)

\* step 4 of checkMembers: the fields that get a fieldSpec
FieldChecked(f) ==
    /\ f.exported
    /\ ~IsXMLName(f.val)
    /\ TagPath(f.tag)[1] # Hyphen

\* fieldSpec.omitempty
FieldOmitempty(f) == HasOption(f.tag, "omitempty")

\* a faulty FieldLookup: the member name is looked up, whatever the tag
FieldLookupByName(f) == IF HasOption(f.tag, "attr") THEN Hyphen \o f.name ELSE f.name

\* fn: the map key looked up for a fieldSpec: field.tag[0] if it is not
\* empty, else field.name; both carry a "-" when the tag has option attr
FieldLookup(f) ==
    LET tag0 == TagPath(f.tag)[1]
        attr == HasOption(f.tag, "attr")
        name == IF attr THEN Hyphen \o f.name ELSE f.name
        tagA == IF attr /\ tag0 # EmptyStr THEN Hyphen \o tag0 ELSE tag0
    IN  IF Len(tagA) > 0 THEN tagA ELSE name

\* a faulty MemDepth: the depth of the members of the root is taken as 0
MemDepthFromZero(cmem) == IF Len(cmem) > 0 THEN Len(Split(cmem, ".")) + 1 ELSE 0

\* cmemdepth: struct hierarchy depth of the members of cmem
MemDepth(cmem) == IF Len(cmem) > 0 THEN Len(Split(cmem, ".")) + 1 ELSE 1

\* a faulty SkipMember: the depth of the entry is not compared
SkipMemberAnyDepth(cmem, fn, skip) ==
    \E i \in 1..Len(skip) :
        \/ Len(cmem) > 0 /\ cmem \o Dot \o fn = skip[i].val
        \/ Len(cmem) = 0 /\ fn = skip[i].val

\* for _, sm := range skipmembers { ... goto next }
SkipMember(cmem, fn, skip) ==
    \E i \in 1..Len(skip) :
        /\ MemDepth(cmem) = skip[i].depth
        /\ \/ Len(cmem) > 0 /\ cmem \o Dot \o fn = skip[i].val
           \/ Len(cmem) = 0 /\ fn = skip[i].val

\* the path recorded for, and handed down with, member fn of cmem
MemPath(cmem, fn) == IF Len(cmem) > 0 THEN cmem \o Dot \o fn ELSE fn

\* the entry recorded when a struct is declared and mv holds no k:v pairs
NotMapEntry(cmem, v) == cmem \o TypeName(v)

\* a faulty CatSeq: what a later field appends comes first
RECURSIVE CatSeqReversed(_)
CatSeqReversed(seqs) == IF Len(seqs) = 0 THEN <<>> ELSE CatSeqReversed(Tail(seqs)) \o seqs[1]

RECURSIVE CatSeq(_)
CatSeq(seqs) == IF Len(seqs) = 0 THEN <<>> ELSE seqs[1] \o CatSeq(Tail(seqs))

\* a faulty CoerceSlice: a value that is no list is dropped
CoerceSliceDropped(mv) == IF IsList(mv) THEN mv.l ELSE <<>>

\* step 2 of checkMembers: 'mv' must be of type []interface{}; if it isn't
\* coerce it
CoerceSlice(mv) == IF IsList(mv) THEN mv.l ELSE <<mv>>

\* a faulty RecordMissing: "&&" where the code has "||"
RecordMissingBothHold(ok, f, omitOK) == ~ok /\ (~FieldOmitempty(f) /\ ~omitOK)

\* step 5 of checkMembers: is the member with key fn, found or not (ok),
\* recorded as missing
RecordMissing(ok, f, omitOK) == ~ok /\ (~FieldOmitempty(f) \/ ~omitOK)

\* the traversal of checkMembers with the ignore list skip and the
\* omitempty policy omitOK: the slice it appends to s
RECURSIVE members(_, _, _, _, _)
members(mv, value, cmem, skip, omitOK) ==
    LET v == Indirect(value)
    IN  IF v.kind = "invalid" THEN <<>>
        ELSE IF v.kind = "slice" THEN
            LET tval == IF v.elem.kind = "ptr" THEN v.elem.elem ELSE v.elem
                sval == New(tval)
                slice == CoerceSlice(mv)
            IN  CatSeq([i \in 1..Len(slice) |-> members(slice[i], sval, cmem, skip, omitOK)])
        ELSE IF v.kind # "struct" THEN <<>>
        ELSE IF ~IsMap(mv) THEN <<NotMapEntry(cmem, v)>>
        ELSE
            LET mkeys == mv.m
                forField(f) ==
                    LET fn == FieldLookup(f)
                        ok == fn \in DOMAIN mkeys
                        fv == IF ok THEN mkeys[fn] ELSE NilNode
                    IN  IF ~FieldChecked(f) THEN <<>>
                        ELSE IF SkipMember(cmem, fn, skip) THEN <<>>
                        ELSE (IF RecordMissing(ok, f, omitOK)
                                THEN <<MemPath(cmem, fn)>> ELSE <<>>)
                             \o members(fv, f.val, MemPath(cmem, fn), skip, omitOK)
            IN  CatSeq([i \in 1..Len(v.fields) |-> forField(v.fields[i])])

\* checkMembers(mv, val, &s, cmem): reads the package variables skipmembers
\* and omitemptyOK
checkMembers(mv, value, cmem) == members(mv, value, cmem, skipmembers, omitemptyOK)

\* the depth the recursion of checkMembers reaches
RECURSIVE membersDepth(_, _, _, _)
membersDepth(mv, value, cmem, skip) ==
    LET v == Indirect(value)
    IN  IF v.kind = "invalid" THEN 1
        ELSE IF v.kind = "slice" THEN
            LET tval == IF v.elem.kind = "ptr" THEN v.elem.elem ELSE v.elem
                sval == New(tval)
                slice == CoerceSlice(mv)
            IN  1 + Deepest({membersDepth(slice[i], sval, cmem, skip) : i \in 1..Len(slice)})
        ELSE IF v.kind # "struct" THEN 1
        ELSE IF ~IsMap(mv) THEN 1
        ELSE
            LET mkeys == mv.m
                called == {i \in 1..Len(v.fields) :
                            /\ FieldChecked(v.fields[i])
                            /\ ~SkipMember(cmem, FieldLookup(v.fields[i]), skip)}
                fv(f) == IF FieldLookup(f) \in DOMAIN mkeys THEN mkeys[FieldLookup(f)] ELSE NilNode
            IN  1 + Deepest({membersDepth(fv(v.fields[i]), v.fields[i].val,
                                          MemPath(cmem, FieldLookup(v.fields[i])), skip) :
                             i \in called})

----------------------------------------------------------------------------
(* The inputs: decoded documents *)

NameA == Str("A")
NameB == Str("B")
NameX == Str("X")
AttrA == Hyphen \o NameA
RootKey == Str("doc")

\* keys of a decoded element: child elements A and B, attribute A ("-A")
Keys == {NameA, NameB, AttrA}
\* the keys of the root element
RootKeys == {NameA, NameB}

\* an element with children and/or attributes, all of them simple
InnerMaps == {MapNode([k \in S |-> Scalar]) : S \in (SUBSET Keys) \ {{}}}

\* the members of a repeated element
ListElems == {Scalar, MapNode([k \in {NameB} |-> Scalar])}

\* a repeated element: mxj builds a list from the second occurrence on
Lists == {ListNode(l) : l \in UNION {[1..n -> ListElems] : n \in 2..MaxSeqLen}}

\* what element A of the root can hold
ValuesOfA == {Scalar} \cup InnerMaps \cup Lists

\* what key k of the root element can hold: B is simple
ValuesOf(k) == IF k = NameA THEN ValuesOfA ELSE {Scalar}

RootMaps ==
    UNION {{MapNode(f) : f \in {g \in [S -> ValuesOfA] : \A k \in S : g[k] \in ValuesOf(k)}} :
           S \in (SUBSET RootKeys) \ {{}}}

\* mxj.NewMapXml...: a map with the root tag as its one key, or an error.
\* An element without children and attributes decodes as a simple value.
DocOf(v) == [ok |-> TRUE, root |-> RootKey, v |-> v]
BadDoc == [ok |-> FALSE, root |-> EmptyStr, v |-> NilNode]
Docs == {DocOf(v) : v \in RootMaps \cup {Scalar}} \cup {BadDoc}

----------------------------------------------------------------------------
(* The inputs: struct definitions *)

TagNone == EmptyStr
TagB == Str("B")
TagAtoB == <<"A", ">", "B">>
TagIgnore == <<"-">>
TagAttr == <<",", "attr">>
TagIgnoreAttr == <<"-", ",", "attr">>
TagOmit == <<",", "omitempty">>
TagBOmit == <<"B", ",", "omitempty">>
TagA == Str("A")
\* a tag whose name holds a period, as XML names may
TagAdotB == <<"A", ".", "B">>
TagDoc == Str("doc")

\* member lists of the nested struct type S
InnerFieldPool ==
    { Field(NameA, TRUE, TagNone, BasicT),
      Field(NameA, TRUE, TagAttr, BasicT),
      Field(NameA, TRUE, TagIgnore, BasicT),
      Field(NameA, TRUE, TagIgnoreAttr, BasicT),
      Field(NameX, TRUE, TagB, BasicT),
      Field(NameX, TRUE, TagBOmit, BasicT) }

InnerFieldLists ==
    {<<f>> : f \in InnerFieldPool}
    \cup { <<Field(NameA, TRUE, TagNone, BasicT), Field(NameX, TRUE, TagB, BasicT)>>,
           <<Field(NameA, TRUE, TagAttr, BasicT), Field(NameX, TRUE, TagBOmit, BasicT)>> }

NameS == Str("S")
NameT == Str("T")
StructsS == {StructT(NameS, fl) : fl \in InnerFieldLists}
S0 == StructT(NameS, <<Field(NameA, TRUE, TagNone, BasicT)>>)

\* the first member of T, Go name A
FirstFields ==
    {Field(NameA, TRUE, TagNone, t) :
        t \in {BasicT} \cup StructsS
              \cup {SliceT(BasicT), SliceT(S0), SliceT(PtrT(S0, TRUE)),
                    PtrT(S0, TRUE), PtrT(S0, FALSE)}}
    \cup {Field(NameA, TRUE, tg, t) :
        tg \in {TagAtoB, TagIgnore, TagAttr, TagOmit, TagB}, t \in {BasicT, S0}}

\* the first members that T declares together with a second member
PairedFields ==
    {Field(NameA, TRUE, tg, t) : tg \in {TagNone, TagIgnore}, t \in {BasicT, S0}}

\* the members of T after the first: none, or one of these
SecondFields ==
    { Field(NameB, TRUE, TagNone, BasicT),
      Field(NameX, TRUE, TagA, BasicT),
      Field(NameX, TRUE, TagAdotB, BasicT),
      Field(Str("b"), FALSE, TagB, BasicT),
      Field(Str("XMLName"), TRUE, TagDoc, XMLNameT) }

StructsT ==
    {StructT(NameT, <<f>>) : f \in FirstFields}
    \cup {StructT(NameT, <<f, g>>) : f \in PairedFields, g \in SecondFields}

\* val is a struct or a pointer to one (e := new(elem))
Vals == StructsT \cup {PtrT(StructT(NameT, <<f>>), FALSE) : f \in PairedFields}

\* the dot-notation paths handed to the setters
MemberPaths == {NameA, NameB, NameA \o Dot \o NameB}
MemberArgs == UNION {[1..n -> MemberPaths] : n \in 0..MaxIgnore}
\* SetTagsToIgnore reads an empty first argument as "no list"
IgnorePaths == MemberPaths \cup {EmptyStr}
IgnoreArgs == UNION {[1..n -> IgnorePaths] : n \in 0..MaxIgnore}

----------------------------------------------------------------------------
(* What an entry point returns: the result slice, the root tag, the error *)

NoCall == [dir |-> "none", s |-> <<>>, root |-> EmptyStr, err |-> "nil"]
Returned(dir, s, root, err) == [dir |-> dir, s |-> s, root |-> root, err |-> err]

\* "for root, v = range m { break }": the root tag of the decoded document
RangeRoot(d) == d.root
\* "for _, v = range m { break }": root keeps its zero value
RangeNoRoot(d) == EmptyStr

\* the body shared by the five UnknownXMLTags* functions
UnknownReturns(d, value) ==
    IF ~d.ok THEN {Returned("unknown", <<>>, EmptyStr, "decode")}
    ELSE IF ~IsMap(d.v) /\ ~IsList(d.v)
        THEN {Returned("unknown", <<>>, RangeRoot(d), "no elements")}
    ELSE {Returned("unknown", s, RangeRoot(d), "nil") : s \in checkAllTags(d.v, value, EmptyStr)}

\* the depth of the recursion an entry point of each direction starts on
\* the decoded document d; 0 when it returns without calling the traversal
UnknownDepth(d, value) ==
    IF ~d.ok \/ (~IsMap(d.v) /\ ~IsList(d.v)) THEN 0
    ELSE allTagsDepth(d.v, value, EmptyStr, skiptags)
MissingDepth(d, value) ==
    IF ~d.ok \/ (~IsMap(d.v) /\ ~IsList(d.v)) THEN 0
    ELSE membersDepth(IF IsMap(d.v) THEN d.v ELSE NilMap, value, EmptyStr, skipmembers)

\* the body shared by the five MissingXMLTags* functions; root is what the
\* range statement of the function left in its variable root
MissingReturns(d, value, root) ==
    IF ~d.ok THEN Returned("missing", <<>>, EmptyStr, "decode")
    ELSE IF ~IsMap(d.v) /\ ~IsList(d.v)
        THEN Returned("missing", <<TypeName(value)>>, root, "nil")
    ELSE LET vv == IF IsMap(d.v) THEN d.v ELSE NilMap
         IN  Returned("missing", checkMembers(vv, value, EmptyStr), root, "nil")

UnknownXMLTags ==
    /\ ret' \in UnknownReturns(doc, val)
    /\ UNCHANGED <<doc, val, skiptags, skipmembers, omitemptyOK, mxjCast, hist, has, run>>

UnknownXMLTagsMap ==
    /\ ret' \in UnknownReturns(doc, val)
    /\ UNCHANGED <<doc, val, skiptags, skipmembers, omitemptyOK, mxjCast, hist, has, run>>

UnknownXMLTagsReader ==
    /\ ret' \in UnknownReturns(doc, val)
    /\ UNCHANGED <<doc, val, skiptags, skipmembers, omitemptyOK, mxjCast, hist, has, run>>

UnknownXMLTagsReaderMap ==
    /\ ret' \in UnknownReturns(doc, val)
    /\ UNCHANGED <<doc, val, skiptags, skipmembers, omitemptyOK, mxjCast, hist, has, run>>

UnknownXMLTagsReaderMapRaw ==
    /\ ret' \in UnknownReturns(doc, val)
    /\ UNCHANGED <<doc, val, skiptags, skipmembers, omitemptyOK, mxjCast, hist, has, run>>

MissingXMLTags ==
    /\ ret' = MissingReturns(doc, val, RangeNoRoot(doc))
    /\ UNCHANGED <<doc, val, skiptags, skipmembers, omitemptyOK, mxjCast, hist, has, run>>

MissingXMLTagsMap ==
    /\ ret' = MissingReturns(doc, val, RangeRoot(doc))
    /\ UNCHANGED <<doc, val, skiptags, skipmembers, omitemptyOK, mxjCast, hist, has, run>>

MissingXMLTagsReader ==
    /\ ret' = MissingReturns(doc, val, RangeRoot(doc))
    /\ UNCHANGED <<doc, val, skiptags, skipmembers, omitemptyOK, mxjCast, hist, has, run>>

MissingXMLTagsReaderMap ==
    /\ ret' = MissingReturns(doc, val, RangeRoot(doc))
    /\ UNCHANGED <<doc, val, skiptags, skipmembers, omitemptyOK, mxjCast, hist, has, run>>

MissingXMLTagsReaderMapRaw ==
    /\ ret' = MissingReturns(doc, val, RangeRoot(doc))
    /\ UNCHANGED <<doc, val, skiptags, skipmembers, omitemptyOK, mxjCast, hist, has, run>>

----------------------------------------------------------------------------
(* The configuration setters *)

\* a faulty NewSkipTags: no arguments leave the list as it is
NewSkipTagsKept(s) == IF Len(s) = 0 \/ s[1] = EmptyStr THEN skiptags ELSE s

\* what SetTagsToIgnore(s...) leaves in skiptags
NewSkipTags(s) == IF Len(s) = 0 \/ s[1] = EmptyStr THEN <<>> ELSE s

\* what SetMembersToIgnore(s...) leaves in skipmembers
NewSkipMembers(s) ==
    IF Len(s) = 0 THEN <<>>
    ELSE [i \in 1..Len(s) |-> [val |-> s[i], depth |-> Len(Split(s[i], "."))]]

SetTagsToIgnore(s) ==
    /\ skiptags' = NewSkipTags(s)
    /\ ret' = NoCall
    /\ UNCHANGED <<doc, val, skipmembers, omitemptyOK, mxjCast, has, run>>

SetMembersToIgnore(s) ==
    /\ skipmembers' = NewSkipMembers(s)
    /\ ret' = NoCall
    /\ UNCHANGED <<doc, val, skiptags, omitemptyOK, mxjCast, has, run>>

\* IgnoreOmitemptyTag(ok...): args is <<>> or <<b>>
NewOmitemptyOK(args) == IF Len(args) = 0 THEN ~omitemptyOK ELSE args[1]

IgnoreOmitemptyTag(args) ==
    /\ omitemptyOK' = NewOmitemptyOK(args)
    /\ ret' = NoCall
    /\ UNCHANGED <<doc, val, skiptags, skipmembers, mxjCast, has, run>>

BoolArgs == {<<>>, <<TRUE>>, <<FALSE>>}

\* what SetMxjCast(b...) returned: the arguments, the flag before the call,
\* and whether the call returned or panicked
CastReturned(args, before, err) ==
    [dir |-> "cast", s |-> <<>>, root |-> EmptyStr, err |-> err,
     args |-> args, before |-> before]

\* SetMxjCast(b...): with no argument the flag is toggled and b[0] is then
\* read from the empty slice, a run-time panic (index out of range)
SetMxjCast(args) ==
    /\ IF Len(args) = 0
          THEN /\ mxjCast' = ~mxjCast
               /\ ret' = CastReturned(args, mxjCast, "panic")
          ELSE /\ mxjCast' = args[1]
               /\ ret' = CastReturned(args, mxjCast, "nil")
    /\ UNCHANGED <<doc, val, skiptags, skipmembers, omitemptyOK, hist, has, run>>

\* a panic that nothing recovers ends the program
Running == ret.err # "panic"

----------------------------------------------------------------------------
(* HasTags *)

\* no call of HasTags yet
NoCheck == [result |-> <<>>, check |-> <<>>, called |-> FALSE, ok |-> FALSE, missing |-> <<>>]

\* for _, v := range check { if _, ok := r[v]; ok { continue }; missing = append(missing, v) }
RECURSIVE NotInResult(_, _)
NotInResult(r, check) ==
    IF Len(check) = 0 THEN <<>>
    ELSE (IF Head(check) \in r THEN <<>> ELSE <<Head(check)>>) \o NotInResult(r, Tail(check))

\* a faulty HasTags: the check values that are found are collected
HasTagsCollectsFound(result, check) ==
    LET found == SelectSeq(check, LAMBDA v : InSeq(v, result))
    IN  IF Len(found) > 0 THEN [ok |-> FALSE, missing |-> found]
        ELSE [ok |-> TRUE, missing |-> <<>>]

\* HasTags(result, check...): (true, nil) or (false, missing)
HasTags(result, check) ==
    LET r == SeqToSet(result)
        missing == NotInResult(r, check)
    IN  IF Len(missing) > 0 THEN [ok |-> FALSE, missing |-> missing]
        ELSE [ok |-> TRUE, missing |-> <<>>]

\* the call of HasTags on the arguments drawn at start
CallHasTags ==
    /\ ~has.called
    /\ has' = [has EXCEPT !.called = TRUE,
                          !.ok = HasTags(has.result, has.check).ok,
                          !.missing = HasTags(has.result, has.check).missing]
    /\ UNCHANGED <<doc, val, skiptags, skipmembers, omitemptyOK, mxjCast, ret, hist, run>>

----------------------------------------------------------------------------
(* A call taken one step at a time, while the setters run alongside *)

\* no call is in progress. work is what the call in progress has left to
\* do, s what it has appended; tags, mems and flags are the values it has
\* read from skiptags, skipmembers and omitemptyOK, in the order read
NoRun == [phase |-> "idle", dir |-> "none", work |-> <<>>, s |-> <<>>,
          tags |-> <<>>, mems |-> <<>>, flags |-> <<>>]

\* what is left to do: a call of the traversal with its arguments, the
\* iteration of checkAllTags' loop for key k, the iteration of checkMembers'
\* loop for field i up to the lookup, and the same iteration from the lookup
CallItem(mv, value, key) ==
    [t |-> "call", mv |-> mv, value |-> value, key |-> key, k |-> EmptyStr, i |-> 0]
KeyItem(mv, value, key, k) ==
    [t |-> "key", mv |-> mv, value |-> value, key |-> key, k |-> k, i |-> 0]
FieldItem(mv, value, key, i) ==
    [t |-> "field", mv |-> mv, value |-> value, key |-> key, k |-> EmptyStr, i |-> i]
LookupItem(mv, value, key, i) ==
    [t |-> "lookup", mv |-> mv, value |-> value, key |-> key, k |-> EmptyStr, i |-> i]

\* a faulty Push: what a step starts is done after what was left to do
PushBehind(items, rest) == rest \o items

\* a call returns before its caller goes on: what a step starts is done
\* before what was left to do
Push(items, rest) == items \o rest

\* the values read so far, with the value c read now
Read(reads, c) ==
    IF Len(reads) > 0 /\ reads[Len(reads)] = c THEN reads ELSE Append(reads, c)

\* one step of checkAllTags for the call in progress r, reading skip from
\* skiptags: the states it can lead to
checkAllTagsSteps(r, skip) ==
    LET it == Head(r.work)
        rest == Tail(r.work)
    IN  IF it.t = "call" THEN
            LET v == Indirect(it.value)
            IN  IF v.kind = "invalid" THEN {[r EXCEPT !.work = rest]}
                ELSE IF v.kind = "slice" THEN
                    LET tval == IF v.elem.kind = "ptr" THEN v.elem.elem ELSE v.elem
                        sval == New(tval)
                    IN  IF ~IsList(it.mv)
                            THEN {[r EXCEPT !.work = rest, !.s = @ \o NotListEntry(it.key)]}
                            ELSE {[r EXCEPT !.work =
                                    Push([i \in 1..Len(it.mv.l) |-> CallItem(it.mv.l[i], sval, it.key)],
                                         rest)]}
                ELSE IF v.kind # "struct" THEN {[r EXCEPT !.work = rest]}
                ELSE
                    LET notmap == IF IsMap(it.mv) THEN <<>> ELSE NotMapKey(it.key)
                        mm == IF IsMap(it.mv) THEN it.mv.m ELSE <<>>
                    IN  {[r EXCEPT !.s = @ \o notmap,
                                   !.work = Push([i \in 1..Len(p) |-> KeyItem(it.mv, v, it.key, p[i])],
                                                 rest)] :
                         p \in Orders(DOMAIN mm)}
        ELSE
            LET fields == KnownFields(it.value)
                read == [r EXCEPT !.tags = Read(@, skip)]
            IN  IF SkipTag(it.key, it.k, skip) THEN {[read EXCEPT !.work = rest]}
                ELSE IF it.k \notin DOMAIN fields
                    THEN {[read EXCEPT !.work = rest, !.s = @ \o UnknownEntry(it.key, it.k)]}
                ELSE {[read EXCEPT !.work =
                        Push(<<CallItem(it.mv.m[it.k], fields[it.k], TKey(it.key, it.k))>>, rest)]}

\* one step of checkMembers for the call in progress r, reading skip from
\* skipmembers or omitOK from omitemptyOK: the state it leads to
checkMembersSteps(r, skip, omitOK) ==
    LET it == Head(r.work)
        rest == Tail(r.work)
    IN  IF it.t = "call" THEN
            LET v == Indirect(it.value)
            IN  IF v.kind = "invalid" THEN [r EXCEPT !.work = rest]
                ELSE IF v.kind = "slice" THEN
                    LET tval == IF v.elem.kind = "ptr" THEN v.elem.elem ELSE v.elem
                        sval == New(tval)
                        slice == CoerceSlice(it.mv)
                    IN  [r EXCEPT !.work =
                            Push([i \in 1..Len(slice) |-> CallItem(slice[i], sval, it.key)], rest)]
                ELSE IF v.kind # "struct" THEN [r EXCEPT !.work = rest]
                ELSE IF ~IsMap(it.mv)
                    THEN [r EXCEPT !.work = rest, !.s = Append(@, NotMapEntry(it.key, v))]
                ELSE
                    LET fields == SelectSeq([i \in 1..Len(v.fields) |-> i],
                                            LAMBDA i : FieldChecked(v.fields[i]))
                    IN  [r EXCEPT !.work =
                            Push([j \in 1..Len(fields) |-> FieldItem(it.mv, v, it.key, fields[j])],
                                 rest)]
        ELSE
            LET f == it.value.fields[it.i]
                fn == FieldLookup(f)
                ok == fn \in DOMAIN it.mv.m
                fv == IF ok THEN it.mv.m[fn] ELSE NilNode
            IN  IF it.t = "field" THEN
                    IF SkipMember(it.key, fn, skip)
                        THEN [r EXCEPT !.mems = Read(@, skip), !.work = rest]
                        ELSE [r EXCEPT !.mems = Read(@, skip),
                                       !.work = Push(<<LookupItem(it.mv, it.value, it.key, it.i)>>, rest)]
                ELSE
                    [r EXCEPT !.flags = IF ~ok /\ FieldOmitempty(f) THEN Read(@, omitOK) ELSE @,
                              !.s = IF RecordMissing(ok, f, omitOK)
                                        THEN Append(@, MemPath(it.key, fn)) ELSE @,
                              !.work = Push(<<CallItem(fv, f.val, MemPath(it.key, fn))>>, rest)]

\* UnknownXMLTags up to its call of checkAllTags
UnknownXMLTagsBegin ==
    /\ run.phase # "running"
    /\ IF ~doc.ok \/ (~IsMap(doc.v) /\ ~IsList(doc.v))
        THEN /\ ret' \in UnknownReturns(doc, val)
             /\ run' = [NoRun EXCEPT !.phase = "returned", !.dir = "unknown"]
        ELSE /\ ret' = NoCall
             /\ run' = [NoRun EXCEPT !.phase = "running", !.dir = "unknown",
                                     !.work = <<CallItem(doc.v, val, EmptyStr)>>]
    /\ UNCHANGED <<doc, val, skiptags, skipmembers, omitemptyOK, mxjCast, hist, has>>

checkAllTagsStep ==
    /\ run.phase = "running" /\ run.dir = "unknown" /\ Len(run.work) > 0
    /\ run' \in checkAllTagsSteps(run, skiptags)
    /\ UNCHANGED <<doc, val, skiptags, skipmembers, omitemptyOK, mxjCast, ret, hist, has>>

\* checkAllTags has returned to UnknownXMLTags, which returns
UnknownXMLTagsEnd ==
    /\ run.phase = "running" /\ run.dir = "unknown" /\ Len(run.work) = 0
    /\ ret' = Returned("unknown", run.s, RangeRoot(doc), "nil")
    /\ run' = [run EXCEPT !.phase = "returned"]
    /\ UNCHANGED <<doc, val, skiptags, skipmembers, omitemptyOK, mxjCast, hist, has>>

\* MissingXMLTags up to its call of checkMembers
MissingXMLTagsBegin ==
    /\ run.phase # "running"
    /\ IF ~doc.ok \/ (~IsMap(doc.v) /\ ~IsList(doc.v))
        THEN /\ ret' = MissingReturns(doc, val, RangeNoRoot(doc))
             /\ run' = [NoRun EXCEPT !.phase = "returned", !.dir = "missing"]
        ELSE /\ ret' = NoCall
             /\ run' = [NoRun EXCEPT !.phase = "running", !.dir = "missing",
                                     !.work = <<CallItem(IF IsMap(doc.v) THEN doc.v ELSE NilMap,
                                                         val, EmptyStr)>>]
    /\ UNCHANGED <<doc, val, skiptags, skipmembers, omitemptyOK, mxjCast, hist, has>>

checkMembersStep ==
    /\ run.phase = "running" /\ run.dir = "missing" /\ Len(run.work) > 0
    /\ run' = checkMembersSteps(run, skipmembers, omitemptyOK)
    /\ UNCHANGED <<doc, val, skiptags, skipmembers, omitemptyOK, mxjCast, ret, hist, has>>

\* checkMembers has returned to MissingXMLTags, which returns
MissingXMLTagsEnd ==
    /\ run.phase = "running" /\ run.dir = "missing" /\ Len(run.work) = 0
    /\ ret' = Returned("missing", run.s, RangeNoRoot(doc), "nil")
    /\ run' = [run EXCEPT !.phase = "returned"]
    /\ UNCHANGED <<doc, val, skiptags, skipmembers, omitemptyOK, mxjCast, hist, has>>

----------------------------------------------------------------------------
(* Specifications *)

\* the history of one ignore list: phase is "set" after the setter was
\* called with a list (kept in list; before is the list in force until then),
\* "cleared" once it was called with no arguments after that, else "idle"
Idle == [phase |-> "idle", before |-> <<>>, list |-> <<>>]
NoHist == [tags |-> Idle, mems |-> Idle]

\* the history after a setter call with the arguments s that replaces old by new
Recorded(h, s, old, new) ==
    IF Len(s) > 0 THEN [phase |-> "set", before |-> old, list |-> new]
    ELSE IF h.phase = "idle" THEN Idle
    ELSE [h EXCEPT !.phase = "cleared"]

Init ==
    /\ doc \in Docs
    /\ val \in Vals
    /\ skiptags = <<>>
    /\ skipmembers = <<>>
    /\ omitemptyOK = TRUE
    /\ mxjCast = FALSE
    /\ ret = NoCall
    /\ hist = NoHist
    /\ run = NoRun
    /\ has = NoCheck

\* the unknown direction and its ignore list
NextUnknown ==
    \/ UnknownXMLTags
    \/ UnknownXMLTagsMap
    \/ UnknownXMLTagsReader
    \/ UnknownXMLTagsReaderMap
    \/ UnknownXMLTagsReaderMapRaw
    \/ \E s \in IgnoreArgs : SetTagsToIgnore(s) /\ UNCHANGED hist

SpecUnknown == Init /\ [][NextUnknown]_vars

\* the missing direction, its ignore list and the omitempty policy
NextMissing ==
    \/ MissingXMLTags
    \/ MissingXMLTagsMap
    \/ MissingXMLTagsReader
    \/ MissingXMLTagsReaderMap
    \/ MissingXMLTagsReaderMapRaw
    \/ \E s \in MemberArgs : SetMembersToIgnore(s) /\ UNCHANGED hist
    \/ \E b \in BoolArgs : IgnoreOmitemptyTag(b) /\ UNCHANGED hist

SpecMissing == Init /\ [][NextMissing]_vars

\* repeated calls of both directions under the configuration at start
NextCalls ==
    \/ UnknownXMLTags
    \/ UnknownXMLTagsMap
    \/ UnknownXMLTagsReader
    \/ UnknownXMLTagsReaderMap
    \/ UnknownXMLTagsReaderMapRaw
    \/ MissingXMLTags
    \/ MissingXMLTagsMap
    \/ MissingXMLTagsReader
    \/ MissingXMLTagsReaderMap
    \/ MissingXMLTagsReaderMapRaw

SpecCalls == Init /\ [][NextCalls]_vars

\* the value-casting flag and the entry points that hand it to the decoder
NextCast ==
    \/ Running /\ UnknownXMLTagsMap
    \/ Running /\ MissingXMLTagsMap
    \/ \E b \in BoolArgs : Running /\ SetMxjCast(b)

SpecCast == Init /\ [][NextCast]_vars

\* HasTags on result slices and check values of up to MaxTags paths
TagLists == UNION {[1..n -> MemberPaths] : n \in 0..MaxTags}

InitTags ==
    /\ doc = BadDoc
    /\ val = S0
    /\ skiptags = <<>>
    /\ skipmembers = <<>>
    /\ omitemptyOK = TRUE
    /\ mxjCast = FALSE
    /\ ret = NoCall
    /\ hist = NoHist
    /\ run = NoRun
    /\ has \in {[NoCheck EXCEPT !.result = r, !.check = c] : r \in TagLists, c \in TagLists}

NextTags == CallHasTags

SpecTags == InitTags /\ [][NextTags]_vars

\* both directions and both ignore lists, with their history, on documents
\* and struct definitions in which the paths A and A.B are reported
ConfigPaths == {NameA, NameA \o Dot \o NameB}
ConfigArgs == UNION {[1..n -> ConfigPaths] : n \in 0..MaxIgnore}
ConfigDocs ==
    {DocOf(MapNode([k \in {NameA} |-> v])) :
        v \in {MapNode([j \in {NameA} |-> Scalar]),
                MapNode([j \in {NameA, NameB} |-> Scalar])}}
ConfigVals ==
    {StructT(NameT, <<Field(NameA, TRUE, TagNone, t)>>) :
        t \in {S0, StructT(NameS, <<Field(NameA, TRUE, TagNone, BasicT),
                                     Field(NameX, TRUE, TagB, BasicT)>>)}}

InitConfig ==
    /\ doc \in ConfigDocs
    /\ val \in ConfigVals
    /\ skiptags = <<>>
    /\ skipmembers = <<>>
    /\ omitemptyOK = TRUE
    /\ mxjCast = FALSE
    /\ ret = NoCall
    /\ hist = NoHist
    /\ run = NoRun
    /\ has = NoCheck

NextConfig ==
    \/ UnknownXMLTags
    \/ UnknownXMLTagsMap
    \/ UnknownXMLTagsReader
    \/ UnknownXMLTagsReaderMap
    \/ UnknownXMLTagsReaderMapRaw
    \/ MissingXMLTags
    \/ MissingXMLTagsMap
    \/ MissingXMLTagsReader
    \/ MissingXMLTagsReaderMap
    \/ MissingXMLTagsReaderMapRaw
    \/ \E s \in ConfigArgs :
            /\ SetTagsToIgnore(s)
            /\ hist' = [hist EXCEPT !.tags = Recorded(@, s, skiptags, skiptags')]
    \/ \E s \in ConfigArgs :
            /\ SetMembersToIgnore(s)
            /\ hist' = [hist EXCEPT !.mems = Recorded(@, s, skipmembers, skipmembers')]

SpecConfig == InitConfig /\ [][NextConfig]_vars

\* both directions and both ignore lists, on documents and struct
\* definitions with keys and fields beneath the path A, and with a field
\* whose tag "A.B" holds a "."
SubtreeDocs ==
    {DocOf(MapNode(m)) :
        m \in {[k \in {NameA} |-> MapNode([j \in {NameA, NameB} |-> Scalar])],
               [k \in {NameA} |-> MapNode([j \in {NameB} |-> Scalar])],
               [k \in {NameA} |-> ListNode(<<MapNode([j \in {NameB} |-> Scalar])>>)],
               [k \in {NameB} |-> Scalar]}}
SubtreeVals ==
    {StructT(NameT, <<Field(NameA, TRUE, TagNone, S0)>>),
     StructT(NameT, <<Field(NameA, TRUE, TagNone, SliceT(S0))>>),
     StructT(NameT, <<Field(NameA, TRUE, TagNone, S0),
                      Field(NameX, TRUE, TagAdotB, BasicT)>>),
     StructT(NameT, <<Field(NameA, TRUE, TagNone,
                            StructT(NameS, <<Field(NameA, TRUE, TagNone, BasicT),
                                             Field(NameX, TRUE, TagB, BasicT)>>))>>)}

InitSubtree ==
    /\ doc \in SubtreeDocs
    /\ val \in SubtreeVals
    /\ skiptags = <<>>
    /\ skipmembers = <<>>
    /\ omitemptyOK = TRUE
    /\ mxjCast = FALSE
    /\ ret = NoCall
    /\ hist = NoHist
    /\ run = NoRun
    /\ has = NoCheck

NextSubtree ==
    \/ UnknownXMLTags
    \/ UnknownXMLTagsMap
    \/ UnknownXMLTagsReader
    \/ UnknownXMLTagsReaderMap
    \/ UnknownXMLTagsReaderMapRaw
    \/ MissingXMLTags
    \/ MissingXMLTagsMap
    \/ MissingXMLTagsReader
    \/ MissingXMLTagsReaderMap
    \/ MissingXMLTagsReaderMapRaw
    \/ \E s \in IgnoreArgs : SetTagsToIgnore(s) /\ UNCHANGED hist
    \/ \E s \in MemberArgs : SetMembersToIgnore(s) /\ UNCHANGED hist

SpecSubtree == InitSubtree /\ [][NextSubtree]_vars

\* a call of either direction in steps, with the setters between any two
\* of them, on documents with two keys to report and struct definitions
\* with two fields to report
StepDocs ==
    {DocOf(MapNode(m)) :
        m \in {[k \in {NameA, NameB} |->
                    IF k = NameA THEN MapNode([j \in {NameB} |-> Scalar]) ELSE Scalar],
               [k \in {NameA} |-> MapNode([j \in {NameB} |-> Scalar])]}}
StepVals ==
    {StructT(NameT, <<Field(NameA, TRUE, TagNone, S0)>>),
     StructT(NameT, <<Field(NameA, TRUE, TagNone,
                            StructT(NameS, <<Field(NameA, TRUE, TagOmit, BasicT)>>)),
                      Field(NameB, TRUE, TagOmit, BasicT)>>)}
StepTagArgs == {<<>>, <<NameB>>, <<NameA \o Dot \o NameB>>}
StepMemberArgs == {<<>>, <<NameB>>, <<NameA \o Dot \o NameA>>}

InitSteps ==
    /\ doc \in StepDocs
    /\ val \in StepVals
    /\ skiptags = <<>>
    /\ skipmembers = <<>>
    /\ omitemptyOK = TRUE
    /\ mxjCast = FALSE
    /\ ret = NoCall
    /\ hist = NoHist
    /\ run = NoRun
    /\ has = NoCheck

NextSteps ==
    \/ UnknownXMLTagsBegin
    \/ checkAllTagsStep
    \/ UnknownXMLTagsEnd
    \/ MissingXMLTagsBegin
    \/ checkMembersStep
    \/ MissingXMLTagsEnd
    \/ \E s \in StepTagArgs : SetTagsToIgnore(s) /\ UNCHANGED hist
    \/ \E s \in StepMemberArgs : SetMembersToIgnore(s) /\ UNCHANGED hist
    \/ \E b \in BoolArgs : IgnoreOmitemptyTag(b) /\ UNCHANGED hist

SpecSteps == InitSteps /\ [][NextSteps]_vars

----------------------------------------------------------------------------
(* Vocabulary of the properties *)

ResultSet == SeqToSet(ret.s)
UnknownDone == ret.dir = "unknown" /\ ret.err = "nil"
MissingDone == ret.dir = "missing" /\ ret.err = "nil"

\* the record type a value denotes, pointers followed
RecordOf(value) == Indirect(value)
IsRecord(value) == RecordOf(value).kind = "struct" /\ ~IsXMLName(RecordOf(value))
IsSequence(value) == Indirect(value).kind = "slice"
\* the element of a declared sequence, as a value whose pointers are nil
ElementOf(value) ==
    LET e == Indirect(value).elem
    IN  Zero(IF e.kind = "ptr" THEN e.elem ELSE e)

\* the fields of a record that take part in matching
Declared(v) == {i \in 1..Len(v.fields) : v.fields[i].exported /\ ~IsXMLName(v.fields[i].val)}
FirstSegment(f) == TagPath(f.tag)[1]
IsSentinel(f) == FirstSegment(f) = Hyphen
IsAttr(f) == HasOption(f.tag, "attr")
IsOptional(f) == HasOption(f.tag, "omitempty")
Prefixed(f, name) == IF IsAttr(f) THEN Hyphen \o name ELSE name

\* resolved name: the first segment of the tag, else the field name; the
\* name of an attribute carries the "-" prefix
Resolved(f) ==
    Prefixed(f, IF FirstSegment(f) = EmptyStr \/ IsSentinel(f) THEN f.name ELSE FirstSegment(f))

Under(path, name) == IF path = EmptyStr THEN name ELSE path \o Dot \o name

\* the field a document key is matched to (the last one declared for it)
Matches(v, k) == {i \in Declared(v) : Resolved(v.fields[i]) = k}
Matched(v, k) == v.fields[CHOOSE i \in Matches(v, k) : \A j \in Matches(v, k) : j <= i]

\* the levels a traversal visits: a record type v met with a mapping m at
\* path; nothing lies beneath a nil pointer
RECURSIVE Levels(_, _, _)
Levels(node, value, path) ==
    IF Indirect(value).kind = "invalid" THEN {}
    ELSE IF IsSequence(value) THEN
        IF IsList(node)
            THEN UNION {Levels(node.l[i], ElementOf(value), path) : i \in 1..Len(node.l)}
            ELSE {}
    ELSE IF IsRecord(value) /\ IsMap(node) THEN
        LET v == RecordOf(value)
        IN  {[path |-> path, v |-> v, m |-> node.m]}
            \cup UNION {Levels(node.m[k], Matched(v, k).val, Under(path, k)) :
                        k \in {j \in DOMAIN node.m : Matches(v, j) # {}}}
    ELSE {}

\* the levels of the call's document and struct definition
CallLevels == IF doc.ok /\ IsMap(doc.v) THEN Levels(doc.v, val, EmptyStr) ELSE {}

----------------------------------------------------------------------------
(* C1: every entry point returns the root tag of the decoded document *)

\* C1 (as claimed): whenever an entry point has returned for a document that
\* decodes, the root it returned is the single top-level key of the document.
C1_RootIsTopLevelKey ==
    (ret.dir # "none" /\ doc.ok) => ret.root = doc.root

----------------------------------------------------------------------------
(* C2: the missing direction on scalar and nested-record fields *)

\* the fields checkMembers looks for: declared, and not tagged "-"
Wanted(v) == {i \in Declared(v) : ~IsSentinel(v.fields[i])}

\* only scalar and nested-record fields, none of them optional
RECURSIVE PlainSchema(_)
PlainSchema(value) ==
    /\ IsRecord(value)
    /\ \A i \in Wanted(RecordOf(value)) :
        LET f == RecordOf(value).fields[i]
        IN  /\ ~IsOptional(f)
            /\ f.val.kind = "basic" \/ (f.val.kind = "struct" /\ PlainSchema(f.val))

\* every nested-record field that is present is a mapping
RECURSIVE RecordsAreMaps(_, _)
RecordsAreMaps(node, value) ==
    \A i \in Wanted(RecordOf(value)) :
        LET f == RecordOf(value).fields[i]
            k == Resolved(f)
        IN  (f.val.kind = "struct" /\ k \in DOMAIN node.m) =>
                (IsMap(node.m[k]) /\ RecordsAreMaps(node.m[k], f.val))

\* the paths of the wanted fields whose resolved name is no key of the
\* mapping at their level; inside: are the fields of an absent record counted
RECURSIVE MissingFields(_, _, _, _)
MissingFields(node, value, path, inside) ==
    UNION {LET f == RecordOf(value).fields[i]
               k == Resolved(f)
               here == IsMap(node) /\ k \in DOMAIN node.m
           IN  (IF here THEN {} ELSE {Under(path, k)})
               \cup (IF f.val.kind = "struct" /\ (here \/ inside)
                       THEN MissingFields(IF here THEN node.m[k] ELSE NilNode,
                                          f.val, Under(path, k), inside)
                       ELSE {})
           : i \in Wanted(RecordOf(value))}

\* one coarse entry per absent nested record: its path followed by the name
\* of the record type
RECURSIVE AbsentRecords(_, _, _)
AbsentRecords(node, value, path) ==
    UNION {LET f == RecordOf(value).fields[i]
               k == Resolved(f)
           IN  IF f.val.kind # "struct" THEN {}
               ELSE IF k \in DOMAIN node.m
                   THEN AbsentRecords(node.m[k], f.val, Under(path, k))
                   ELSE {Under(path, k) \o f.val.name}
           : i \in Wanted(RecordOf(value))}

C2_Applies ==
    /\ MissingDone /\ IsMap(doc.v)
    /\ skipmembers = <<>>
    /\ PlainSchema(val) /\ RecordsAreMaps(doc.v, val)

\* C2 (as claimed): the result is exactly the set of paths of the declared
\* fields whose resolved name is no key of the mapping at their level
\* (whether or not the fields of an absent record are counted).
C2_ExactlyMissingFields ==
    C2_Applies =>
        \/ ResultSet = MissingFields(doc.v, val, EmptyStr, FALSE)
        \/ ResultSet = MissingFields(doc.v, val, EmptyStr, TRUE)

\* C2 (amended): the result is exactly those paths, at the root and in every
\* record that is present, together with one entry per absent nested record,
\* its path followed by the record's type name.
C2_MissingFieldsAndAbsentRecords ==
    C2_Applies =>
        ResultSet = MissingFields(doc.v, val, EmptyStr, FALSE)
                        \cup AbsentRecords(doc.v, val, EmptyStr)

\* a nested record is present and lacks a field, another is reported too
C2_Witness ==
    /\ C2_Applies
    /\ \E e \in ResultSet : Len(e) = 3 /\ e[2] = "."
    /\ \E i \in Wanted(RecordOf(val)) :
          RecordOf(val).fields[i].val.kind = "struct"
          /\ Resolved(RecordOf(val).fields[i]) \in DOMAIN doc.v.m

----------------------------------------------------------------------------
(* C3: the unknown direction with an empty ignore list *)

\* the keys of the visited levels that no field resolves to
UnknownKeys ==
    UNION {{Under(L.path, k) : k \in {j \in DOMAIN L.m : Matches(L.v, j) = {}}} : L \in CallLevels}

\* a node that has not the shape its field declares: no mapping for a
\* record, no sequence for a sequence, or a member of a sequence of records
\* that is no mapping
Misshapen(value, node) ==
    \/ IsRecord(value) /\ ~IsMap(node)
    \/ IsSequence(value) /\ ~IsList(node)
    \/ /\ IsSequence(value) /\ IsList(node) /\ IsRecord(ElementOf(value))
       /\ \E i \in 1..Len(node.l) : ~IsMap(node.l[i])

\* the matched keys of the visited levels whose node is misshapen
MisshapenKeys ==
    UNION {{Under(L.path, k) :
                k \in {j \in DOMAIN L.m : /\ Matches(L.v, j) # {}
                                          /\ Misshapen(Matched(L.v, j).val, L.m[j])}}
           : L \in CallLevels}

----------------------------------------------------------------------------
(* C4: an attribute of an element that is declared as a scalar *)

IsAttrKey(k) == Len(k) > 0 /\ k[1] = "-"

\* C4 (as claimed): when an element carries an attribute and the field
\* matching the element is a scalar, the result holds "<element>.-<attribute>".
C4_AttrOfScalarReported ==
    (UnknownDone /\ skiptags = <<>>) =>
        \A L \in CallLevels : \A k \in DOMAIN L.m :
            (/\ Matches(L.v, k) # {}
             /\ Matched(L.v, k).val.kind = "basic"
             /\ IsMap(L.m[k])) =>
                \A a \in {j \in DOMAIN L.m[k].m : IsAttrKey(j)} :
                    Under(Under(L.path, k), a) \in ResultSet

----------------------------------------------------------------------------
(* C5, C6: a declared sequence met with a single occurrence *)

BeginsWith(e, p) == Len(e) >= Len(p) /\ SubSeq(e, 1, Len(p)) = p

\* the single value matches the element type
FitsElement(node, elem) ==
    \/ elem.kind = "basic" /\ node = Scalar
    \/ /\ IsRecord(elem) /\ IsMap(node)
       /\ \A j \in DOMAIN node.m :
            /\ Matches(RecordOf(elem), j) # {}
            /\ Matched(RecordOf(elem), j).val.kind = "basic"
            /\ node.m[j] = Scalar

\* C5 (as claimed): a field declared as a sequence whose element occurs once
\* (its node is no sequence) with a value that matches the element type gives
\* no unknown tag: nothing is reported at or beneath the element.
C5_SingletonNotUnknown ==
    UnknownDone =>
        \A L \in CallLevels : \A k \in DOMAIN L.m :
            (/\ Matches(L.v, k) # {}
             /\ IsSequence(Matched(L.v, k).val)
             /\ ~IsList(L.m[k])
             /\ FitsElement(L.m[k], ElementOf(Matched(L.v, k).val))) =>
                \A e \in ResultSet :
                    e # Under(L.path, k) /\ ~BeginsWith(e, Under(L.path, k) \o Dot)

\* the root mapping with the node of key k wrapped as a one-element sequence
Wrapped(node, k) == MapNode([node.m EXCEPT ![k] = ListNode(<<@>>)])

\* the keys of the root that a sequence is declared for and that hold no
\* sequence
Singletons ==
    IF ~(doc.ok /\ IsMap(doc.v) /\ IsRecord(val)) THEN {}
    ELSE {k \in DOMAIN doc.v.m :
            /\ \E i \in Wanted(RecordOf(val)) :
                 /\ Resolved(RecordOf(val).fields[i]) = k
                 /\ IsSequence(RecordOf(val).fields[i].val)
            /\ ~IsList(doc.v.m[k])}

\* C6: a field declared as a sequence whose node is present and is no
\* sequence is not reported missing, and the result is the one of the document
\* in which that node is a one-element sequence.
C6_SingletonCoerced ==
    MissingDone =>
        \A k \in Singletons :
            /\ k \notin ResultSet
            /\ ret.s = members(Wrapped(doc.v, k), val, EmptyStr, skipmembers, omitemptyOK)

\* the single occurrence is reconciled: a member of the element type is
\* reported missing beneath it
C6_Witness ==
    /\ MissingDone
    /\ NameA \in Singletons
    /\ IsMap(doc.v.m[NameA])
    /\ NameA \o Dot \o NameA \in ResultSet

----------------------------------------------------------------------------
(* C7: the unknown direction and a field tagged "-" *)

\* the fields of a level that carry the ignore sentinel as their tag
Sentinels(L) == {i \in Declared(L.v) : IsSentinel(L.v.fields[i])}

----------------------------------------------------------------------------
(* C8: the ignore list of the missing direction *)

\* the number of dot-separated segments of a path; none for the empty path
RECURSIVE Dots(_)
Dots(p) == IF Len(p) = 0 THEN 0 ELSE (IF Head(p) = "." THEN 1 ELSE 0) + Dots(Tail(p))
Segments(p) == IF p = EmptyStr THEN 0 ELSE Dots(p) + 1

\* some entry of the ignore list equals the full path of a field of parent,
\* and has as many segments as the field's depth
Listed(parent, name) ==
    \E i \in 1..Len(skipmembers) :
        /\ skipmembers[i].val = Under(parent, name)
        /\ Dots(skipmembers[i].val) + 1 = Segments(parent) + 1

\* the struct definition without the listed fields
RECURSIVE Pruned(_, _)
Pruned(value, path) ==
    CASE value.kind = "ptr" -> [value EXCEPT !.elem = Pruned(value.elem, path)]
      [] value.kind = "slice" -> [value EXCEPT !.elem = Pruned(value.elem, path)]
      [] value.kind = "struct" ->
            LET keep == SelectSeq(value.fields,
                                  LAMBDA f : ~(f.exported /\ ~IsSentinel(f)
                                               /\ Listed(path, Resolved(f))))
            IN  [value EXCEPT !.fields =
                    [i \in 1..Len(keep) |->
                        [keep[i] EXCEPT !.val = Pruned(keep[i].val, Under(path, Resolved(keep[i])))]]]
      [] OTHER -> value

\* the full paths of the fields the missing direction looks for
RECURSIVE FieldPaths(_, _)
FieldPaths(value, path) ==
    IF IsSequence(value) THEN FieldPaths(ElementOf(value), path)
    ELSE IF ~IsRecord(value) THEN {}
    ELSE UNION {LET f == RecordOf(value).fields[i]
                IN  {Under(path, Resolved(f))} \cup FieldPaths(f.val, Under(path, Resolved(f)))
                : i \in Wanted(RecordOf(value))}

\* C8 (amended): a declared field is skipped, neither reported nor descended
\* into, if and only if some entry equals its full path and has as many
\* segments as the field's depth: the result is the one an empty ignore list
\* gives for the struct definition without those fields.
C8_SkippedIffListedAtDepth ==
    (MissingDone /\ IsMap(doc.v)) =>
        ret.s = members(doc.v, Pruned(val, EmptyStr), EmptyStr, <<>>, omitemptyOK)

\* C8 (as claimed): the same, and in particular every field whose full path
\* is listed is absent from the result.
C8_ListedFieldsAbsent ==
    /\ C8_SkippedIffListedAtDepth
    /\ MissingDone =>
        \A i \in 1..Len(skipmembers) :
            skipmembers[i].val \in FieldPaths(val, EmptyStr) => skipmembers[i].val \notin ResultSet

\* a listed field that an empty ignore list would have reported
C8_Witness ==
    /\ MissingDone /\ IsMap(doc.v)
    /\ Len(skipmembers) > 0
    /\ skipmembers[1].val \notin ResultSet
    /\ InSeq(skipmembers[1].val, members(doc.v, val, EmptyStr, <<>>, omitemptyOK))

----------------------------------------------------------------------------
(* C9: the ignore list of the unknown direction *)

\* C9: no path handed to SetTagsToIgnore is in the result of an
\* UnknownXMLTags* call.
C9_IgnoredNeverReported ==
    ret.dir = "unknown" => \A i \in 1..Len(skiptags) : skiptags[i] \notin ResultSet

\* an ignored key beneath the root that an empty ignore list reports
C9_Witness ==
    /\ UnknownDone
    /\ Len(skiptags) > 0
    /\ Len(skiptags[1]) = 3
    /\ \E r \in allTags(doc.v, val, EmptyStr, <<>>) : InSeq(skiptags[1], r)

----------------------------------------------------------------------------
(* C10: setting an ignore list and clearing it *)

\* C10 (as claimed): once a setter was called with a list X and then with no
\* arguments, a call returns what the same call returned before X was set,
\* that is under the list that was in force until then.
C10_ClearRestoresPreSet ==
    /\ (hist.tags.phase = "cleared" /\ UnknownDone) =>
            ret.s \in allTags(doc.v, val, EmptyStr, hist.tags.before)
    /\ (hist.mems.phase = "cleared" /\ MissingDone) =>
            ret.s = members(doc.v, val, EmptyStr, hist.mems.before, omitemptyOK)

\* C10 (amended): once a setter was called with a list X and then with no
\* arguments, a call returns what it returns under an empty ignore list;
\* that is the result from before X was set only if no list was in force then.
C10_ClearGivesEmptyList ==
    /\ (hist.tags.phase = "cleared" /\ UnknownDone) =>
            ret.s \in allTags(doc.v, val, EmptyStr, <<>>)
    /\ (hist.mems.phase = "cleared" /\ MissingDone) =>
            ret.s = members(doc.v, val, EmptyStr, <<>>, omitemptyOK)

\* both lists were set and cleared, and a path that the list had excluded is
\* reported again
C10_Witness ==
    /\ hist.tags.phase = "cleared" /\ hist.mems.phase = "cleared"
    /\ \/ UnknownDone /\ \E i \in 1..Len(hist.tags.list) : hist.tags.list[i] \in ResultSet
       \/ MissingDone /\ \E i \in 1..Len(hist.mems.list) : hist.mems.list[i].val \in ResultSet

----------------------------------------------------------------------------
(* C11: repeated calls *)

\* a call of one direction that follows a call of the same direction; the
\* document, the struct definition and the configuration are the same
Repeated(dir) == ret.dir = dir /\ ret'.dir = dir

\* s is t with its entries in another order
Reordered(s, t) ==
    /\ Len(s) = Len(t)
    /\ \A e \in SeqToSet(s) \cup SeqToSet(t) :
          Cardinality({i \in 1..Len(s) : s[i] = e}) = Cardinality({i \in 1..Len(t) : t[i] = e})

----------------------------------------------------------------------------
(* C12: fields tagged "omitempty" *)

\* the levels the missing direction visits: a record type v met with a
\* mapping m at path, reached through fields that are present and not skipped
RECURSIVE MemberLevels(_, _, _)
MemberLevels(node, value, path) ==
    IF Indirect(value).kind = "invalid" THEN {}
    ELSE IF IsSequence(value) THEN
        LET slice == IF IsList(node) THEN node.l ELSE <<node>>
        IN  UNION {MemberLevels(slice[i], ElementOf(value), path) : i \in 1..Len(slice)}
    ELSE IF IsRecord(value) /\ IsMap(node) THEN
        LET v == RecordOf(value)
        IN  {[path |-> path, v |-> v, m |-> node.m]}
            \cup UNION {MemberLevels(node.m[Resolved(v.fields[i])], v.fields[i].val,
                                     Under(path, Resolved(v.fields[i]))) :
                        i \in {j \in Wanted(v) : /\ Resolved(v.fields[j]) \in DOMAIN node.m
                                                 /\ ~Listed(path, Resolved(v.fields[j]))}}
    ELSE {}

\* the optional fields of a visited level that are absent from its mapping
\* and not skipped
AbsentOptional(L) ==
    {i \in Wanted(L.v) : /\ IsOptional(L.v.fields[i])
                         /\ Resolved(L.v.fields[i]) \notin DOMAIN L.m
                         /\ ~Listed(L.path, Resolved(L.v.fields[i]))}

CallMemberLevels == IF doc.ok /\ IsMap(doc.v) THEN MemberLevels(doc.v, val, EmptyStr) ELSE {}

\* C12: while "omitempty" is recognised, an absent field with that tag
\* contributes no entry (none at its path, none that continues its path),
\* whatever its type; once IgnoreOmitemptyTag(false) was called, it is
\* reported at its full path.
C12_OptionalFollowsPolicy ==
    MissingDone =>
        \A L \in CallMemberLevels : \A i \in AbsentOptional(L) :
            LET p == Under(L.path, Resolved(L.v.fields[i]))
            IN  IF omitemptyOK
                    THEN \A e \in ResultSet : ~BeginsWith(e, p)
                    ELSE p \in ResultSet

----------------------------------------------------------------------------
(* C13: HasTags *)

\* C13: HasTags returns (true, nil) if and only if every check value is an
\* element of result; otherwise it returns false with exactly the check
\* values that are not in result, in the order they were passed.
C13_HasTagsReportsAbsent ==
    has.called =>
        LET all == \A i \in 1..Len(has.check) : \E j \in 1..Len(has.result) :
                        has.result[j] = has.check[i]
            absent == SelectSeq(has.check, LAMBDA v : ~InSeq(v, has.result))
        IN  /\ (has.ok /\ has.missing = <<>>) <=> all
            /\ ~all => (~has.ok /\ has.missing = absent)

\* of two check values the first is in result and the second is not
C13_Witness ==
    /\ has.called /\ ~has.ok
    /\ Len(has.check) = 2 /\ InSeq(has.check[1], has.result)
    /\ has.missing = <<has.check[2]>>

----------------------------------------------------------------------------
(* C14: SetMxjCast *)

\* C14: SetMxjCast with no arguments toggles the flag and returns normally;
\* with one argument it sets the flag to that argument.
C14_CastToggledOrSet ==
    ret.dir = "cast" =>
        /\ ret.err = "nil"
        /\ mxjCast = (IF Len(ret.args) = 0 THEN ~ret.before ELSE ret.args[1])

----------------------------------------------------------------------------
(* C15: the entries are dot-notation paths *)

\* a syntactically valid dot-path: not empty, and no segment of it is empty
ValidPath(e) ==
    /\ Len(e) > 0
    /\ e[1] # "." /\ e[Len(e)] # "."
    /\ \A i \in 1..(Len(e) - 1) : ~(e[i] = "." /\ e[i + 1] = ".")

\* C15: every entry of the result of either direction is a valid dot-path,
\* whatever the shape of the document and whether the struct is handed over
\* by value or by pointer.
C15_EntriesAreDotPaths ==
    (UnknownDone \/ MissingDone) => \A e \in ResultSet : ValidPath(e)

----------------------------------------------------------------------------
(* C16: the missing direction on a root element without content *)

\* the root value is neither a mapping nor a sequence
EmptyRoot == doc.ok /\ ~IsMap(doc.v) /\ ~IsList(doc.v)

\* C16: on such a root every MissingXMLTags* function returns a nil error
\* and exactly one entry, the name of the struct type of the definition.
C16_EmptyRootNamesRecordType ==
    (ret.dir = "missing" /\ EmptyRoot) =>
        /\ ret.err = "nil"
        /\ ret.s = <<RecordOf(val).name>>

----------------------------------------------------------------------------
(* C17: a record declared where the document holds no mapping *)

\* the places where the missing direction meets a record type v with a node
\* that is no mapping (a simple value, or nothing at all)
RECURSIVE Mismatches(_, _, _)
Mismatches(node, value, path) ==
    IF Indirect(value).kind = "invalid" THEN {}
    ELSE IF IsSequence(value) THEN
        LET slice == IF IsList(node) THEN node.l ELSE <<node>>
        IN  UNION {Mismatches(slice[i], ElementOf(value), path) : i \in 1..Len(slice)}
    ELSE IF ~IsRecord(value) THEN {}
    ELSE IF ~IsMap(node) THEN {[path |-> path, v |-> RecordOf(value)]}
    ELSE LET v == RecordOf(value)
         IN  UNION {LET k == Resolved(v.fields[i])
                    IN  Mismatches(IF k \in DOMAIN node.m THEN node.m[k] ELSE NilNode,
                                   v.fields[i].val, Under(path, k))
                    : i \in {j \in Wanted(v) : ~Listed(path, Resolved(v.fields[j]))}}

CallMismatches == IF doc.ok /\ IsMap(doc.v) THEN Mismatches(doc.v, val, EmptyStr) ELSE {}

\* C17: for a record declared at a non-empty path whose node is no mapping,
\* the one entry recorded is the path, ".", and the name of the record type;
\* nothing else is recorded beneath the path.
C17_MismatchNamesPathDotType ==
    MissingDone =>
        \A X \in CallMismatches :
            X.path # EmptyStr =>
                /\ X.path \o Dot \o X.v.name \in ResultSet
                /\ \A e \in ResultSet :
                      BeginsWith(e, X.path \o Dot) => e = X.path \o Dot \o X.v.name

----------------------------------------------------------------------------
(* C18: a nested record that is absent from the document *)

\* is a field reported when it is absent: it is not optional, or "omitempty"
\* is not recognised
Reported(f) == ~IsOptional(f) \/ ~omitemptyOK

\* the fields of record type of a visited level that are absent from its
\* mapping, would be reported and are not skipped
AbsentRecordFields(L) ==
    {i \in Wanted(L.v) : /\ IsRecord(L.v.fields[i].val)
                         /\ Reported(L.v.fields[i])
                         /\ Resolved(L.v.fields[i]) \notin DOMAIN L.m
                         /\ ~Listed(L.path, Resolved(L.v.fields[i]))}

\* the paths of the fields declared inside the record of field f at path p
\* that would be reported and are not skipped
InnerPaths(f, p) ==
    {Under(p, Resolved(RecordOf(f.val).fields[j])) :
        j \in {n \in Wanted(RecordOf(f.val)) :
                    /\ Reported(RecordOf(f.val).fields[n])
                    /\ ~Listed(p, Resolved(RecordOf(f.val).fields[n]))}}

\* C18 (as claimed): for an absent nested record the result holds the path
\* of the field and the full path of every non-optional, non-ignored field
\* declared inside the record.
C18_AbsentRecordDescended ==
    MissingDone =>
        \A L \in CallMemberLevels : \A i \in AbsentRecordFields(L) :
            LET p == Under(L.path, Resolved(L.v.fields[i]))
            IN  {p} \cup InnerPaths(L.v.fields[i], p) \subseteq ResultSet

\* C18 (amended): for an absent nested record the result holds the path of
\* the field and one entry made of that path and the name of the record
\* type; the traversal stops there, no field declared inside the record is
\* reported (an entry beneath the path belongs to another field of the level).
C18_AbsentRecordNotDescended ==
    MissingDone =>
        \A L \in CallMemberLevels : \A i \in AbsentRecordFields(L) :
            LET f == L.v.fields[i]
                p == Under(L.path, Resolved(f))
            IN  /\ p \in ResultSet
                /\ p \o RecordOf(f.val).name \in ResultSet
                /\ \A e \in ResultSet :
                      BeginsWith(e, p \o Dot) =>
                          \E j \in Wanted(L.v) \ {i} : e = Under(L.path, Resolved(L.v.fields[j]))

\* an absent nested record that declares a field which would be reported;
\* the record's own path is in the result
C18_Witness ==
    /\ MissingDone
    /\ \E L \in CallMemberLevels : \E i \in AbsentRecordFields(L) :
          LET p == Under(L.path, Resolved(L.v.fields[i]))
          IN  /\ InnerPaths(L.v.fields[i], p) # {}
              /\ p \in ResultSet
              /\ InnerPaths(L.v.fields[i], p) \cap ResultSet = {}

----------------------------------------------------------------------------
(* C19: duplicates *)

NoDuplicates(s) == \A i, j \in 1..Len(s) : s[i] = s[j] => i = j

\* no record type of the definition has two fields with one resolved name
RECURSIVE UniqueNames(_)
UniqueNames(value) ==
    IF IsSequence(value) THEN UniqueNames(ElementOf(value))
    ELSE IF ~IsRecord(value) THEN TRUE
    ELSE LET v == RecordOf(value)
         IN  /\ \A i, j \in Declared(v) : Resolved(v.fields[i]) = Resolved(v.fields[j]) => i = j
             /\ \A i \in Declared(v) : UniqueNames(v.fields[i].val)

\* no resolved name of the definition holds a "."
RECURSIVE PlainNames(_)
PlainNames(value) ==
    IF IsSequence(value) THEN PlainNames(ElementOf(value))
    ELSE IF ~IsRecord(value) THEN TRUE
    ELSE LET v == RecordOf(value)
         IN  \A i \in Declared(v) : /\ Dots(Resolved(v.fields[i])) = 0
                                    /\ PlainNames(v.fields[i].val)

\* the document holds no repeated element, and no key of it holds a "."
RECURSIVE NoLists(_)
NoLists(node) ==
    /\ ~IsList(node)
    /\ IsMap(node) => \A k \in DOMAIN node.m : Dots(k) = 0 /\ NoLists(node.m[k])

\* C19 (as claimed): if no record type has two fields with the same resolved
\* name, the result of either direction holds no path twice, repeated
\* elements included.
C19_NoDuplicates ==
    ((UnknownDone \/ MissingDone) /\ UniqueNames(val)) => NoDuplicates(ret.s)

\* C19 (amended): if moreover the document holds no repeated element, no
\* resolved name and no key holds a ".", and (missing direction) every record the
\* traversal comes to is met with a mapping, the result holds no path twice;
\* each member of a repeated element adds its entries under the same path.
C19_NoDuplicatesWithoutLists ==
    ((UnknownDone \/ MissingDone) /\ IsMap(doc.v)
        /\ UniqueNames(val) /\ PlainNames(val) /\ NoLists(doc.v)
        /\ (MissingDone => CallMismatches = {}))
    => NoDuplicates(ret.s)

\* a document without repeated elements, two levels, an entry from each
C19_Witness ==
    /\ UnknownDone /\ IsMap(doc.v)
    /\ UniqueNames(val) /\ PlainNames(val) /\ NoLists(doc.v)
    /\ Len(ret.s) = 2
    /\ \E i, j \in 1..2 : Dots(ret.s[i]) = 0 /\ Dots(ret.s[j]) = 1

----------------------------------------------------------------------------
(* C20: the order of the entries of the missing direction *)

\* the entry e was produced at or beneath the field f whose path is p: it
\* is p, continues p beyond a ".", or is p with the name of f's record type
Belongs(e, p, f) ==
    \/ e = p
    \/ BeginsWith(e, p \o Dot)
    \/ IsRecord(f.val) /\ e = p \o RecordOf(f.val).name
    \/ IsSequence(f.val) /\ IsRecord(ElementOf(f.val)) /\ e = p \o RecordOf(ElementOf(f.val)).name

\* the path of field i of the level L
PathOf(L, i) == Under(L.path, Resolved(L.v.fields[i]))

\* the paths of two fields of a level tell their entries apart
Apart(L, i, j) ==
    /\ ~BeginsWith(PathOf(L, i), PathOf(L, j))
    /\ ~BeginsWith(PathOf(L, j), PathOf(L, i))

----------------------------------------------------------------------------
(* C22: nothing beneath an ignored path is reported *)

\* the paths the ignore list of the call's direction excludes: those of
\* the unknown direction are its entries; an entry of the missing direction
\* excludes the field of a visited level it names at that level's depth
Excluded ==
    IF UnknownDone THEN {p \in SeqToSet(skiptags) : p # EmptyStr}
    ELSE IF MissingDone THEN
        UNION {{PathOf(L, i) : i \in {j \in Wanted(L.v) : Listed(L.path, Resolved(L.v.fields[j]))}} :
               L \in CallMemberLevels}
    ELSE {}

\* the level at path is neither the one at p nor one beneath p
Outside(path, p) == path # p /\ ~BeginsWith(path, p \o Dot)

\* the entries that are the path of a key or field whose own name holds a
\* ".", at a level that is not beneath the path p
DottedNames(p) ==
    IF UnknownDone THEN
        UNION {{Under(L.path, k) : k \in {j \in DOMAIN L.m : Dots(j) > 0}} :
               L \in {M \in CallLevels : Outside(M.path, p)}}
    ELSE IF MissingDone THEN
        UNION {{PathOf(L, i) : i \in {j \in Wanted(L.v) : Dots(Resolved(L.v.fields[j])) > 0}} :
               L \in {M \in CallMemberLevels : Outside(M.path, p)}}
    ELSE {}

\* C22 (as claimed): in both directions no entry of the result has an
\* excluded path as a proper dot-prefix.
C22_NoEntryBeneathExcluded ==
    \A p \in Excluded : \A e \in ResultSet : ~BeginsWith(e, p \o Dot)

\* C22 (amended): in both directions an entry of the result that has an
\* excluded path as a proper dot-prefix is the path of a key or field whose
\* own name holds a "." and that lies at a level outside the excluded path:
\* nothing is reported from beneath an excluded path.
C22_NothingFromBeneathExcluded ==
    \A p \in Excluded : \A e \in ResultSet :
        BeginsWith(e, p \o Dot) => e \in DottedNames(p)

\* the result the call's direction gives with empty ignore lists
Unignored ==
    IF UnknownDone THEN UNION {SeqToSet(r) : r \in allTags(doc.v, val, EmptyStr, <<>>)}
    ELSE SeqToSet(members(doc.v, val, EmptyStr, <<>>, omitemptyOK))

\* a call of each direction, in turn, has returned with a path excluded
\* beneath which the empty ignore list lets an entry be reported
C22_Witness ==
    /\ UnknownDone \/ MissingDone
    /\ doc.ok /\ IsMap(doc.v)
    /\ \E p \in Excluded : \E e \in Unignored :
            BeginsWith(e, p \o Dot) /\ e \notin DottedNames(p) /\ e \notin ResultSet

----------------------------------------------------------------------------
(* C23: a nil pointer to a record is not descended into *)

\* the fields of the record v declared as a pointer to a record and nil in
\* the instance; those declared as a sequence of pointers to records
NilRecordFields(v) ==
    {i \in Wanted(v) : /\ v.fields[i].val.kind = "ptr"
                       /\ v.fields[i].val.isnil
                       /\ v.fields[i].val.elem.kind = "struct"}
PtrSliceFields(v) ==
    {i \in Wanted(v) : /\ v.fields[i].val.kind = "slice"
                       /\ v.fields[i].val.elem.kind = "ptr"
                       /\ v.fields[i].val.elem.elem.kind = "struct"}

\* the entry e is the own path of a key of the root mapping m (unknown
\* direction) or of a field of the root record v other than i (missing)
OwnPath(e, v, i, m) ==
    IF UnknownDone THEN e \in DOMAIN m
    ELSE \E j \in Wanted(v) \ {i} : e = Resolved(v.fields[j])

\* the mappings among the members of the node met by a declared sequence
ElementMaps(node) ==
    IF IsList(node) THEN {node.l[i].m : i \in {j \in 1..Len(node.l) : IsMap(node.l[j])}}
    ELSE IF IsMap(node) /\ MissingDone THEN {node.m}
    ELSE {}

\* C23: after a call of either direction on a document whose root is a
\* mapping, for a field of the root record that is a nil pointer to a
\* record: no entry lies beneath the field's path or names its record
\* type, the unknown direction does not report the field's key, and the
\* missing direction reports the field's own path exactly when its key is
\* absent (and the field is neither optional under the policy nor
\* ignored). For a field that is a sequence of pointers to records, every
\* member mapping is compared with the record: its undeclared keys and the
\* record's absent fields are reported beneath the field's path.
C23_NilPointerNotDescended ==
    ((UnknownDone \/ MissingDone) /\ doc.ok /\ IsMap(doc.v) /\ val.kind \in {"struct", "ptr"}) =>
        LET v == IF val.kind = "ptr" THEN val.elem ELSE val
            m == doc.v.m
        IN  /\ \A i \in NilRecordFields(v) :
                LET f == v.fields[i]
                    n == Resolved(f)
                IN  /\ \A e \in ResultSet :
                            (BeginsWith(e, n \o Dot) \/ e = n \o f.val.elem.name)
                                => OwnPath(e, v, i, m)
                    /\ UnknownDone /\ Matches(v, n) = {i} => n \notin ResultSet
                    /\ MissingDone /\ ~OwnPath(n, v, i, m) =>
                            (n \in ResultSet <=>
                                /\ n \notin DOMAIN m
                                /\ ~(IsOptional(f) /\ omitemptyOK)
                                /\ ~Listed(EmptyStr, n))
            /\ \A i \in PtrSliceFields(v) :
                LET f == v.fields[i]
                    n == Resolved(f)
                    r == f.val.elem.elem
                IN  (n \in DOMAIN m /\ Matches(v, n) = {i}
                        /\ ~(UnknownDone /\ n \in SeqToSet(skiptags))
                        /\ ~(MissingDone /\ Listed(EmptyStr, n))) =>
                        \A em \in ElementMaps(m[n]) :
                            /\ UnknownDone =>
                                \A k \in DOMAIN em :
                                    (Matches(r, k) = {} /\ Under(n, k) \notin SeqToSet(skiptags))
                                        => Under(n, k) \in ResultSet
                            /\ MissingDone =>
                                \A j \in Wanted(r) :
                                    (/\ Resolved(r.fields[j]) \notin DOMAIN em
                                     /\ ~(IsOptional(r.fields[j]) /\ omitemptyOK)
                                     /\ ~Listed(n, Resolved(r.fields[j])))
                                        => Under(n, Resolved(r.fields[j])) \in ResultSet

\* a call has returned for a record whose one field is a nil pointer to a
\* record, on a document whose element for that field holds a key the
\* record does not declare and lacks a field it declares
C23_Witness ==
    /\ UnknownDone \/ MissingDone
    /\ doc.ok /\ IsMap(doc.v) /\ val.kind = "struct"
    /\ \E i \in NilRecordFields(val) :
        LET f == val.fields[i]
            n == Resolved(f)
        IN  /\ n \in DOMAIN doc.v.m
            /\ IsMap(doc.v.m[n])
            /\ \E k \in DOMAIN doc.v.m[n].m : Matches(f.val.elem, k) = {}
            /\ \E j \in Wanted(f.val.elem) : Resolved(f.val.elem.fields[j]) \notin DOMAIN doc.v.m[n].m

----------------------------------------------------------------------------
(* C21: the recursion is bounded by the nesting of the struct definition *)

\* the number of nested record and sequence levels of a struct definition;
\* a pointer is no level
RECURSIVE NestingDepth(_)
NestingDepth(value) ==
    CASE value.kind = "ptr" -> NestingDepth(value.elem)
      [] value.kind = "slice" -> 1 + NestingDepth(value.elem)
      [] value.kind = "struct" ->
            1 + Deepest({NestingDepth(value.fields[i].val) : i \in 1..Len(value.fields)})
      [] OTHER -> 0

\* the number of nested mappings and lists of a document node
RECURSIVE NodeDepth(_)
NodeDepth(node) ==
    IF IsMap(node) THEN 1 + Deepest({NodeDepth(node.m[k]) : k \in DOMAIN node.m})
    ELSE IF IsList(node) THEN 1 + Deepest({NodeDepth(node.l[i]) : i \in 1..Len(node.l)})
    ELSE 0

\* the depth of the recursion of the call that has returned
CallDepth == IF UnknownDone THEN UnknownDepth(doc, val) ELSE MissingDepth(doc, val)

\* C21: the traversal of a call of either direction that has returned
\* reached a recursion depth of at most the nesting depth of the struct
\* definition plus one, however deep the document is.
C21_DepthBoundedBySchema ==
    (UnknownDone \/ MissingDone) => CallDepth <= NestingDepth(val) + 1

\* a call has returned whose recursion reached the nesting depth of the
\* struct definition plus one on a document nested deeper than that
C21_Witness ==
    /\ UnknownDone \/ MissingDone
    /\ doc.ok
    /\ CallDepth = NestingDepth(val) + 1
    /\ NodeDepth(doc.v) > NestingDepth(val) + 1

----------------------------------------------------------------------------
(* C24: the configuration is read at each step of a call *)

\* the call that has returned read at most one value of the variable
Steady(reads) == Len(reads) <= 1
\* the value it read, or cur if it did not read the variable
ValueRead(reads, cur) == IF Len(reads) > 0 THEN reads[1] ELSE cur

\* the results of the call's direction under a configuration
UnknownUnder(tags) == allTags(doc.v, val, EmptyStr, tags)
MissingUnder(mems, flag) ==
    members(IF IsMap(doc.v) THEN doc.v ELSE NilMap, val, EmptyStr, mems, flag)

StepsDone == run.phase = "returned" /\ ret.dir = run.dir /\ ret.err = "nil"

\* C24: a call taken in steps that read a single value of each
\* configuration variable (no setter changed it between two of its steps)
\* returns a result of the traversal under that configuration; a call
\* whose steps read two values of a variable can return a result that is
\* one under neither (the state C24_Witness).
C24_SingleConfiguration ==
    StepsDone =>
        /\ (ret.dir = "unknown" /\ Steady(run.tags)) =>
                ret.s \in UnknownUnder(ValueRead(run.tags, skiptags))
        /\ (ret.dir = "missing" /\ Steady(run.mems) /\ Steady(run.flags)) =>
                ret.s = MissingUnder(ValueRead(run.mems, skipmembers),
                                     ValueRead(run.flags, omitemptyOK))

\* a call has returned whose steps read the ignore list of its direction
\* before and after one change of it, with a result that is one neither
\* under the list before nor under the list after
C24_Witness ==
    /\ StepsDone
    /\ \/ /\ ret.dir = "unknown"
          /\ Len(run.tags) = 2
          /\ \A i \in 1..2 : ret.s \notin UnknownUnder(run.tags[i])
       \/ /\ ret.dir = "missing"
          /\ Len(run.mems) = 2 /\ Steady(run.flags)
          /\ \A i \in 1..2 :
                ret.s # MissingUnder(run.mems[i], ValueRead(run.flags, omitemptyOK))

====
